---- MODULE Spec2Model ----
(***************************************************************************)
(* Live production dashboard: the machine fleet, the ERPNext work-order    *)
(* auto-assignment, the operator controls, the automatic meter counter and *)
(* the production alerts, as one state machine.                            *)
(*                                                                         *)
(* All tasks share one asyncio event loop.  A task gives up the loop only  *)
(* at an await; the only awaits besides the sleeps are the WebSocket       *)
(* broadcasts.  The request handlers and the alert loop await after their  *)
(* last store access (the alert loop reads only the rows loaded by its one *)
(* query), so each is one action.  The meter counter awaits a broadcast in *)
(* the middle of its loop (update_machine_status on completion), so one    *)
(* pass of it is a chain of actions: MeterBegin, MeterResume ...           *)
(***************************************************************************)
EXTENDS Integers, Sequences, FiniteSets, TLC

\* ------------------------------------------------------------ bounds
\* Work orders the ERP may create during a run.
NumWorkOrders == 2
\* Alert passes fed one by one.
MaxPasses == 6
\* The clock stops here (seconds).
MaxClock == 40
\* The same where a single machine is followed for longer.
LongClock == 100
\* Broadcasts a task makes during a run.
MaxBroadcasts == 1

\* ------------------------------------------------------------ values
\* Python None / SQL NULL of a string column.
None == "None"
\* NULL of Machine.last_tick_time.
NoTime == -1
\* NULL / missing custom_machine_id of a work order (falsy in Python).
NoMachine == 0

\* Seed values of a machine row.
SeedTargetQty == 100
SeedSecondsPerMeter == 20
SeedPipeSize == "20"

\* The seed's locations and ids (start_id + i): Modan from 1, Baldeya from 100.
LocationOf(id) == IF id < 100 THEN "Modan" ELSE "Baldeya"
Locations == {"Modan", "Baldeya"}
\* The seeded fleet, cut to the first two machines of Modan.
MachineIds == {1, 2}

WorkOrderNames == <<"WO-1", "WO-2", "WO-3", "WO-4">>
WorkOrders == {WorkOrderNames[i] : i \in 1..NumWorkOrders}

\* What the ERP may put in a work order.
PipeSizes == {"20", "32"}
\* <<qty, produced_qty>> of a work order when the ERP creates it: a fresh
\* order, and one whose produced_qty is beyond its qty.
QtyPairs == {<<2, 0>>, <<1, 2>>}
\* The same where a single machine is followed for longer: fresh orders.
LongQtyPairs == {<<2, 0>>, <<6, 0>>}
\* The same where a single machine is followed through its alerts: an order
\* at 75 percent and one at 90 percent.
LevelQtyPairs == {<<4, 3>>, <<10, 9>>}

\* Seconds by which time passes between two steps: one meter, five meters.
ClockSteps == {SeedSecondsPerMeter}
LongClockSteps == {SeedSecondsPerMeter, 5 * SeedSecondsPerMeter}

VARIABLES
    machines,       \* table Machine: id -> row
    metadata,       \* table ERPNextMetadata: work order -> row or NoMeta
    production_log, \* table ProductionLog: the rows, in insertion order
    erp,            \* the ERPNext work orders: name -> document or Absent
    erp_asked,      \* per work order, the last status update_work_order_status sent
    clock,          \* datetime.now(), seconds
    alert_history,  \* main.alert_history: machine id -> last level (missing = 0)
    meter,          \* automatic_meter_counter: where its pass stands
    alerts,         \* the alerts the step just taken broadcast: {<<machine id, level>>}
    assigned,       \* the "Assigned ERP WO" lines the step just taken printed
    advanced,       \* the advances the step just taken made: machine, diff, status
    observed,       \* the alert passes fed one by one: <<percent found, alerts sent>>
    failed,         \* the work order at which the step just taken hit a store error
    active_connections, \* manager.active_connections: the WebSockets, in order
    sockets,        \* per WebSocket: new, open or closed (by the peer or the network)
    received,       \* per WebSocket: the messages send_json delivered
    broadcasting    \* per task: where its manager.broadcast stands

\* The WebSocket side of the program.
wsvars == <<active_connections, sockets, received, broadcasting>>

vars == <<machines, metadata, production_log, erp, erp_asked, clock,
          alert_history, meter, alerts, assigned, advanced, observed, failed,
          active_connections, sockets, received, broadcasting>>

\* ------------------------------------------------------------ rows
NoMeta == [machine_id |-> NoMachine, erp_status |-> None]
Absent == [status |-> "Absent", location |-> None, pipe_size |-> None,
           qty |-> 0, produced_qty |-> 0, custom_machine_id |-> NoMachine]

\* Column defaults of models.Machine for what the seed leaves out.
MachineDefaults == [is_locked |-> FALSE, work_order |-> None,
                    erpnext_work_order_id |-> None, last_tick_time |-> NoTime]

SeedMachine(id) ==
    [location |-> LocationOf(id), status |-> "free",
     target_qty |-> SeedTargetQty, produced_qty |-> 0,
     pipe_size |-> SeedPipeSize, seconds_per_meter |-> SeedSecondsPerMeter,
     is_locked |-> MachineDefaults.is_locked,
     work_order |-> MachineDefaults.work_order,
     erpnext_work_order_id |-> MachineDefaults.erpnext_work_order_id,
     last_tick_time |-> MachineDefaults.last_tick_time]

\* The WebSockets that may connect, and the tasks that broadcast.
WebSockets == {"ws1", "ws2", "ws3"}
Tasks == {"meter", "alerts"}

\* A task that is not inside manager.broadcast.
NotBroadcasting == [pc |-> "idle", data |-> 0, todo |-> <<>>, sent |-> {}, dropped |-> {}]

\* No subscriber yet, no broadcast under way.
NoSubscribers ==
    /\ active_connections = <<>>
    /\ sockets = [ws \in WebSockets |-> "new"]
    /\ received = [ws \in WebSockets |-> {}]
    /\ broadcasting = [t \in Tasks |-> NotBroadcasting]

MeterIdle == [pc |-> "sleep", rest |-> <<>>, now |-> 0, updated |-> FALSE, meta |-> None]

\* The state after startup_event on an empty store, for a fleet.
Startup(fleet) ==
    /\ machines = [id \in fleet |-> SeedMachine(id)]
    /\ metadata = [w \in WorkOrders |-> NoMeta]
    /\ production_log = <<>>
    /\ erp = [w \in WorkOrders |-> Absent]
    /\ erp_asked = [w \in WorkOrders |-> None]
    /\ clock = 0
    /\ alert_history = [id \in fleet |-> 0]
    /\ meter = MeterIdle
    /\ alerts = {}
    /\ assigned = <<>>
    /\ advanced = <<>>
    /\ observed = <<>>
    /\ failed = None
    /\ NoSubscribers

Init == Startup(MachineIds)

\* ------------------------------------------------------------ helpers
\* A step that is no pass of one of the three loops: no alert, no assignment,
\* no advance.
Silent ==
    /\ alerts' = {} /\ assigned' = <<>> /\ advanced' = <<>> /\ failed' = None
    /\ observed' = observed

\* The same, and the subscribers are as they were.
Quiet == Silent /\ UNCHANGED wsvars

\* The rows of a query without ORDER BY come in primary-key order.
RECURSIVE SortedSeq(_)
SortedSeq(S) ==
    IF S = {} THEN <<>>
    ELSE LET x == CHOOSE y \in S : \A z \in S : y <= z
         IN <<x>> \o SortedSeq(S \ {x})

RECURSIVE SortedNames(_, _)
SortedNames(i, S) ==
    IF i > Len(WorkOrderNames) THEN <<>>
    ELSE (IF WorkOrderNames[i] \in S THEN <<WorkOrderNames[i]>> ELSE <<>>)
         \o SortedNames(i + 1, S)

\* ------------------------------------------------------------ the ERP
\* The ERP creates a work order (outside this program).
ErpCreate(w, locs, sizes, pairs) ==
    /\ erp[w].status = "Absent"
    /\ \E loc \in locs, ps \in sizes, qp \in pairs,
          cm \in {NoMachine} :
          erp' = [erp EXCEPT ![w] =
                    [status |-> "Not Started", location |-> loc, pipe_size |-> ps,
                     qty |-> qp[1], produced_qty |-> qp[2],
                     custom_machine_id |-> cm]]
    /\ Quiet
    /\ UNCHANGED <<machines, metadata, production_log, erp_asked, clock,
                   alert_history, meter>>

\* get_work_orders: the documents with status Not Started or In Process.
get_work_orders(e) ==
    SortedNames(1, {w \in WorkOrders : e[w].status \in {"Not Started", "In Process"}})

\* update_work_order_status: a PUT that either reaches the ERP (ok) or fails
\* and is only printed.
update_work_order_status(e, id, status, ok) ==
    IF ok /\ id \in WorkOrders /\ e[id].status # "Absent"
    THEN [e EXCEPT ![id].status = status]
    ELSE e

Asked(a, id, status) ==
    IF id \in WorkOrders THEN [a EXCEPT ![id] = status] ELSE a

\* ------------------------------------------------------------ time
Tick(d, max) ==
    /\ clock + d <= max
    /\ clock' = clock + d
    /\ Quiet
    /\ UNCHANGED <<machines, metadata, production_log, erp, erp_asked,
                   alert_history, meter>>

\* ------------------------------------------------------------ auto-assign
\* db.query(Machine).filter(erpnext_work_order_id == wo_name).first()
Existing(ms, w) == \E id \in DOMAIN ms : ms[id].erpnext_work_order_id = w

FreeMachinesAnyLock(ms, loc) ==
    SortedSeq({id \in DOMAIN ms :
                 /\ ms[id].location = loc
                 /\ ms[id].status \in {"free", "paused", "stopped"}})

\* The "free machines" query: location, not locked, status free/paused/stopped.
FreeMachines(ms, loc) ==
    SortedSeq({id \in DOMAIN ms :
                 /\ ms[id].location = loc
                 /\ ms[id].is_locked = FALSE
                 /\ ms[id].status \in {"free", "paused", "stopped"}})

\* for m in free_machines: if m.pipe_size == pipe_size: selected = m; break
RECURSIVE FirstMatch(_, _, _)
FirstMatch(ms, cands, ps) ==
    IF cands = <<>> THEN NoMachine
    ELSE IF ms[Head(cands)].pipe_size = ps THEN Head(cands)
    ELSE FirstMatch(ms, Tail(cands), ps)

SelectFirst(ms, cands, ps) == cands[1]

\* Prefer pipe size match, else free_machines[0].
SelectMachine(ms, cands, ps) ==
    LET sel == FirstMatch(ms, cands, ps)
    IN IF sel = NoMachine THEN cands[1] ELSE sel

\* The assignment of work order w (document wo) to the selected machine.
AssignMachine(m, w, wo) ==
    [m EXCEPT !.erpnext_work_order_id = w,
              !.work_order = w,
              !.pipe_size = wo.pipe_size,
              !.target_qty = wo.qty,
              !.produced_qty = wo.produced_qty,
              !.status = "paused",
              !.is_locked = TRUE]

\* The metadata upsert (a new row and an updated row end the same).
AssignMeta(md, w, id) ==
    [md EXCEPT ![w] = [machine_id |-> id, erp_status |-> "Assigned"]]

\* The loop over the work orders; st = [machines, metadata, assigned].
RECURSIVE AssignLoop(_, _, _)
AssignLoop(wos, e, st) ==
    IF wos = <<>> THEN st
    ELSE
      LET w == Head(wos)
          wo == e[w]
          cands == FreeMachines(st.machines, wo.location)
      IN IF \/ wo.status = "In Process"
            \/ wo.custom_machine_id # NoMachine
            \/ Existing(st.machines, w)
            \/ cands = <<>>
         THEN AssignLoop(Tail(wos), e, st)
         ELSE
           LET id == SelectMachine(st.machines, cands, wo.pipe_size)
           IN AssignLoop(Tail(wos), e,
                [machines |-> [st.machines EXCEPT
                                 ![id] = AssignMachine(st.machines[id], w, wo)],
                 metadata |-> AssignMeta(st.metadata, w, id),
                 assigned |-> Append(st.assigned,
                    [work_order |-> w, pipe_size |-> wo.pipe_size,
                     candidates |-> [i \in DOMAIN cands |->
                                       <<cands[i], st.machines[cands[i]].pipe_size>>],
                     machine_id |-> id])])

\* One call of auto_assign_work_orders on a store and an ERP.
AssignResult(ms, md, e) ==
    AssignLoop(get_work_orders(e), e,
               [machines |-> ms, metadata |-> md, assigned |-> <<>>])

AssignAllOrNothing(ms, md, e, j) ==
    [machines |-> ms, metadata |-> md, assigned |-> <<>>]

\* One call in which the store raises at the j-th work order of the list (in
\* one of its queries, its flush or its commit): the orders before it went
\* through the loop, each assignment committed by itself; what the j-th
\* changed is not committed and db.rollback() discards it; the except block
\* ends the loop, finally closes the session.
AssignFailing(ms, md, e, j) ==
    AssignLoop(SubSeq(get_work_orders(e), 1, j - 1), e,
               [machines |-> ms, metadata |-> md, assigned |-> <<>>])

\* ------------------------------------------------------------ machine controls
\* get_machine: the row with this id at this location, NoMachine if none.
get_machine(location, machine_id) ==
    IF machine_id \in DOMAIN machines /\ machines[machine_id].location = location
    THEN machine_id ELSE NoMachine

StatusRowNoStamp(m, new_status, now) ==
    IF new_status = "running"
    THEN [m EXCEPT !.status = new_status, !.is_locked = TRUE]
    ELSE IF new_status = "completed"
    THEN [m EXCEPT !.status = new_status, !.is_locked = FALSE]
    ELSE [m EXCEPT !.status = new_status]

StatusRowUnlockOnStop(m, new_status, now) ==
    IF new_status = "running"
    THEN [m EXCEPT !.status = new_status, !.is_locked = TRUE, !.last_tick_time = now]
    ELSE IF new_status \in {"completed", "stopped"}
    THEN [m EXCEPT !.status = new_status, !.is_locked = FALSE]
    ELSE [m EXCEPT !.status = new_status]

StatusRowNoLock(m, new_status, now) ==
    IF new_status = "running"
    THEN [m EXCEPT !.status = new_status, !.last_tick_time = now]
    ELSE IF new_status = "completed"
    THEN [m EXCEPT !.status = new_status, !.is_locked = FALSE]
    ELSE [m EXCEPT !.status = new_status]

\* update_machine_status, the row: status, and for running the lock and the
\* tick stamp, for completed the unlock.
StatusRow(m, new_status, now) ==
    IF new_status = "running"
    THEN [m EXCEPT !.status = new_status, !.is_locked = TRUE, !.last_tick_time = now]
    ELSE IF new_status = "completed"
    THEN [m EXCEPT !.status = new_status, !.is_locked = FALSE]
    ELSE [m EXCEPT !.status = new_status]

\* update_machine_status, the ERP: running asks In Process, completed asks
\* Completed, anything else asks nothing.
StatusErp(e, m, new_status, ok) ==
    IF new_status = "running"
    THEN update_work_order_status(e, m.erpnext_work_order_id, "In Process", ok)
    ELSE IF new_status = "completed"
    THEN update_work_order_status(e, m.erpnext_work_order_id, "Completed", ok)
    ELSE e

StatusAsked(a, m, new_status) ==
    IF new_status = "running" THEN Asked(a, m.erpnext_work_order_id, "In Process")
    ELSE IF new_status = "completed" THEN Asked(a, m.erpnext_work_order_id, "Completed")
    ELSE a

\* update_machine_status(db, m, new_status) in a request: the commit, then
\* the broadcast, after which the handler only returns.
update_machine_status(id, new_status, ok) ==
    /\ machines' = [machines EXCEPT ![id] = StatusRow(machines[id], new_status, clock)]
    /\ erp' = StatusErp(erp, machines[id], new_status, ok)
    /\ erp_asked' = StatusAsked(erp_asked, machines[id], new_status)

\* POST /api/machine/start
start_machine(location, machine_id) ==
    LET id == get_machine(location, machine_id)
    IN /\ IF id = NoMachine \/ machines[id].work_order = None
          THEN UNCHANGED <<machines, erp, erp_asked>>
          ELSE \E ok \in BOOLEAN : update_machine_status(id, "running", ok)
       /\ Quiet
       /\ UNCHANGED <<metadata, production_log, clock, alert_history, meter>>

\* POST /api/machine/pause: the status alone, not through update_machine_status.
pause_machine(location, machine_id) ==
    LET id == get_machine(location, machine_id)
    IN /\ IF id = NoMachine
          THEN UNCHANGED machines
          ELSE machines' = [machines EXCEPT ![id].status = "paused"]
       /\ Quiet
       /\ UNCHANGED <<metadata, production_log, erp, erp_asked, clock,
                      alert_history, meter>>

\* POST /api/machine/stop
stop_machine(location, machine_id) ==
    LET id == get_machine(location, machine_id)
    IN /\ IF id = NoMachine
          THEN UNCHANGED <<machines, erp, erp_asked>>
          ELSE update_machine_status(id, "stopped", TRUE)
       /\ Quiet
       /\ UNCHANGED <<metadata, production_log, clock, alert_history, meter>>

\* erpnext_sync_loop: one call of auto_assign_work_orders (it has no await),
\* the store raising no error.
auto_assign_work_orders ==
    LET r == AssignResult(machines, metadata, erp)
    IN /\ machines' = r.machines
       /\ metadata' = r.metadata
       /\ assigned' = r.assigned
       /\ alerts' = {}
       /\ advanced' = <<>>
       /\ observed' = observed
       /\ failed' = None
       /\ UNCHANGED <<production_log, erp, erp_asked, clock, alert_history, meter>>
       /\ UNCHANGED wsvars

\* erpnext_sync_loop: one call of auto_assign_work_orders in which the store
\* raises at one work order of the list; the loop's sleep follows as ever.
auto_assign_store_error ==
    /\ \E j \in 1..Len(get_work_orders(erp)) :
          LET r == AssignFailing(machines, metadata, erp, j)
          IN /\ machines' = r.machines
             /\ metadata' = r.metadata
             /\ assigned' = r.assigned
             /\ failed' = get_work_orders(erp)[j]
    /\ alerts' = {}
    /\ advanced' = <<>>
    /\ observed' = observed
    /\ UNCHANGED <<production_log, erp, erp_asked, clock, alert_history, meter>>
    /\ UNCHANGED wsvars

\* ------------------------------------------------------------ meter counter
AdvanceElapsed(m, now) ==
    [m EXCEPT !.produced_qty = m.produced_qty
                                 + (now - m.last_tick_time) \div m.seconds_per_meter,
              !.last_tick_time = now]

\* The machine's advance by one unit (produced_qty += 1, last_tick_time = now).
Advance(m, now) ==
    [m EXCEPT !.produced_qty = m.produced_qty + 1, !.last_tick_time = now]

\* The ProductionLog row of one advance.
LogRow(id, m, now) ==
    [machine_id |-> id, work_order |-> m.work_order, pipe_size |-> m.pipe_size,
     produced_qty |-> 1, timestamp |-> now]

\* diff >= m.seconds_per_meter and m.produced_qty < m.target_qty
Due(m, now) ==
    /\ now - m.last_tick_time >= m.seconds_per_meter
    /\ m.produced_qty < m.target_qty

\* The for loop over the machines that were running at the query, from the
\* machine it stands at up to its next await (the broadcast inside
\* update_machine_status(db, m, "completed")) or its end.
\* st = [machines, metadata, production_log, advanced]; the result adds what
\* is left of the list, updated, the machine that completed (NoMachine at the
\* end of the list) and the work order whose metadata row the loop holds.
RECURSIVE MeterLoop(_, _, _, _)
MeterLoop(rest, st, now, updated) ==
    IF rest = <<>>
    THEN [machines |-> st.machines, metadata |-> st.metadata,
          production_log |-> st.production_log, advanced |-> st.advanced,
          rest |-> <<>>, updated |-> updated, completed |-> NoMachine, meta |-> None]
    ELSE
      LET id == Head(rest)
          m == st.machines[id]
      IN IF m.seconds_per_meter = 0 \/ m.work_order = None
         THEN MeterLoop(Tail(rest), st, now, updated)
         ELSE IF m.last_tick_time = NoTime
         THEN MeterLoop(Tail(rest),
                        [st EXCEPT !.machines[id].last_tick_time = now], now, updated)
         ELSE IF ~Due(m, now)
         THEN MeterLoop(Tail(rest), st, now, updated)
         ELSE
           LET m1 == Advance(m, now)
               w == m.work_order
               has_meta == w \in WorkOrders /\ st.metadata[w] # NoMeta
               md1 == IF has_meta
                      THEN [st.metadata EXCEPT ![w].erp_status = "In Progress"]
                      ELSE st.metadata
               log1 == Append(st.production_log, LogRow(id, m, now))
               adv1 == Append(st.advanced,
                              [machine_id |-> id, diff |-> now - m.last_tick_time,
                               status |-> m.status])
           IN IF m1.produced_qty >= m1.target_qty
              THEN [machines |-> [st.machines EXCEPT
                                    ![id] = [m1 EXCEPT !.produced_qty = m1.target_qty]],
                    metadata |-> md1, production_log |-> log1, advanced |-> adv1,
                    rest |-> Tail(rest), updated |-> TRUE, completed |-> id,
                    meta |-> IF has_meta THEN w ELSE None]
              ELSE MeterLoop(Tail(rest),
                             [machines |-> [st.machines EXCEPT ![id] = m1],
                              metadata |-> md1, production_log |-> log1,
                              advanced |-> adv1],
                             now, TRUE)

\* One stretch of a pass: the loop runs from the session's state st to its
\* next await or to its end.  At a completion update_machine_status commits
\* and awaits the broadcast; at the end the pass commits if updated and
\* otherwise closes the session, which drops what it changed.
MeterStretch(rest, st, now, updated, ok) ==
    LET r == MeterLoop(rest, st, now, updated)
        id == r.completed
    IN IF id # NoMachine
       THEN /\ machines' = [r.machines EXCEPT
                              ![id] = StatusRow(r.machines[id], "completed", clock)]
            /\ metadata' = r.metadata
            /\ production_log' = r.production_log
            /\ advanced' = r.advanced
            /\ erp' = StatusErp(erp, r.machines[id], "completed", ok)
            /\ erp_asked' = StatusAsked(erp_asked, r.machines[id], "completed")
            /\ meter' = [pc |-> "await", rest |-> r.rest, now |-> now,
                         updated |-> r.updated, meta |-> r.meta]
       ELSE /\ IF r.updated
               THEN /\ machines' = r.machines
                    /\ metadata' = r.metadata
                    /\ production_log' = r.production_log
               ELSE UNCHANGED <<machines, metadata, production_log>>
            /\ advanced' = r.advanced
            /\ UNCHANGED <<erp, erp_asked>>
            /\ meter' = MeterIdle

ResumeMetaSkip(md, w) == md

\* if meta: meta.erp_status = "Completed", after the await.
ResumeMeta(md, w) ==
    IF w = None THEN md ELSE [md EXCEPT ![w].erp_status = "Completed"]

\* A pass starts: the query for the running machines, now, and the loop up
\* to its first await.
MeterBegin ==
    /\ meter.pc = "sleep"
    /\ \E ok \in BOOLEAN :
          MeterStretch(SortedSeq({id \in DOMAIN machines : machines[id].status = "running"}),
                       [machines |-> machines, metadata |-> metadata,
                        production_log |-> production_log, advanced |-> <<>>],
                       clock, FALSE, ok)
    /\ alerts' = {}
    /\ assigned' = <<>>
    /\ observed' = observed
    /\ failed' = None
    /\ UNCHANGED <<clock, alert_history>>
    /\ UNCHANGED wsvars

\* The broadcast returns: meta.erp_status = "Completed" for the machine that
\* completed, then the loop goes on with the rows as they are in the store now
\* (the commit expired the session's copies).
MeterResume ==
    /\ meter.pc = "await"
    /\ \E ok \in BOOLEAN :
          MeterStretch(meter.rest,
                       [machines |-> machines,
                        metadata |-> ResumeMeta(metadata, meter.meta),
                        production_log |-> production_log, advanced |-> <<>>],
                       meter.now, meter.updated, ok)
    /\ alerts' = {}
    /\ assigned' = <<>>
    /\ observed' = observed
    /\ failed' = None
    /\ UNCHANGED <<clock, alert_history>>
    /\ UNCHANGED wsvars

\* ------------------------------------------------------------ alerts
\* percent = (m.produced_qty / m.target_qty) * 100, by its whole part: the
\* thresholds are whole numbers, so the comparisons are the same.
Percent(m) == (m.produced_qty * 100) \div m.target_qty

AlertLevel(percent) ==
    IF percent >= 100 THEN 3
    ELSE IF percent >= 90 THEN 2
    ELSE IF percent >= 75 THEN 1
    ELSE 0

EmitsAnyLevel(alert_level, last_level) == alert_level > 0

\* if alert_level > 0 and alert_level != last_level
Emits(alert_level, last_level) == alert_level > 0 /\ alert_level # last_level

\* The loop over the rows of the query (target_qty > 0); st = [history, out].
RECURSIVE AlertLoop(_, _, _)
AlertLoop(ids, ms, st) ==
    IF ids = <<>> THEN st
    ELSE
      LET id == Head(ids)
          m == ms[id]
          percent == Percent(m)
          last_level == st.history[id]
          alert_level == AlertLevel(percent)
      IN IF m.work_order = None \/ m.status # "running"
         THEN AlertLoop(Tail(ids), ms, st)
         ELSE IF Emits(alert_level, last_level)
         THEN AlertLoop(Tail(ids), ms,
                        [history |-> [st.history EXCEPT ![id] = alert_level],
                         out |-> st.out \cup {<<id, alert_level>>}])
         ELSE IF percent < 75
         THEN AlertLoop(Tail(ids), ms, [st EXCEPT !.history[id] = 0])
         ELSE AlertLoop(Tail(ids), ms, st)

\* One pass of production_alerts.
production_alerts ==
    LET r == AlertLoop(SortedSeq({id \in DOMAIN machines : machines[id].target_qty > 0}),
                       machines, [history |-> alert_history, out |-> {}])
    IN /\ alert_history' = r.history
       /\ alerts' = r.out
       /\ assigned' = <<>>
       /\ advanced' = <<>>
       /\ observed' = observed
       /\ failed' = None
       /\ UNCHANGED <<machines, metadata, production_log, erp, erp_asked, clock, meter>>
       /\ UNCHANGED wsvars

\* ------------------------------------------------------------ WebSocket manager
InList(conns, ws) == \E i \in DOMAIN conns : conns[i] = ws

\* list.remove(ws): the first occurrence goes; ValueError when there is none.
ListRemove(conns, ws) ==
    IF InList(conns, ws)
    THEN LET i == CHOOSE k \in DOMAIN conns :
                     conns[k] = ws /\ \A j \in 1..(k - 1) : conns[j] # ws
         IN [list |-> SubSeq(conns, 1, i - 1) \o SubSeq(conns, i + 1, Len(conns)),
             raised |-> FALSE]
    ELSE [list |-> conns, raised |-> TRUE]

disconnectUnguarded(conns, ws) == ListRemove(conns, ws)

\* ConnectionManager.disconnect: if ws in self.active_connections: remove.
disconnect(conns, ws) ==
    IF InList(conns, ws) THEN ListRemove(conns, ws)
    ELSE [list |-> conns, raised |-> FALSE]

SendFailureIgnored(conns, ws) == [list |-> conns, raised |-> FALSE]

\* except Exception: self.disconnect(ws)
SendFailure(conns, ws) == disconnect(conns, ws)

\* ws_dashboard, up to its first receive_text: manager.connect(ws).
connect(ws) ==
    /\ sockets[ws] = "new"
    /\ sockets' = [sockets EXCEPT ![ws] = "open"]
    /\ active_connections' = Append(active_connections, ws)
    /\ Silent
    /\ UNCHANGED <<machines, metadata, production_log, erp, erp_asked, clock,
                   alert_history, meter, received, broadcasting>>

\* The peer goes away or the connection breaks (outside this program).
Drop(ws) ==
    /\ sockets[ws] = "open"
    /\ sockets' = [sockets EXCEPT ![ws] = "closed"]
    /\ Silent
    /\ UNCHANGED <<machines, metadata, production_log, erp, erp_asked, clock,
                   alert_history, meter, active_connections, received, broadcasting>>

\* ws_dashboard: receive_text raises WebSocketDisconnect, manager.disconnect(ws).
ws_dashboard(ws) ==
    /\ sockets[ws] = "closed"
    /\ active_connections' = disconnect(active_connections, ws).list
    /\ Silent
    /\ UNCHANGED <<machines, metadata, production_log, erp, erp_asked, clock,
                   alert_history, meter, sockets, received, broadcasting>>

\* manager.broadcast(data) is entered by task t: the copy of the list, and
\* the first send_json is awaited (with no subscriber it returns at once).
broadcast(t) ==
    /\ broadcasting[t].pc = "idle"
    /\ broadcasting[t].data < MaxBroadcasts
    /\ broadcasting' = [broadcasting EXCEPT ![t] =
          [pc |-> IF active_connections = <<>> THEN "idle" ELSE "send",
           data |-> broadcasting[t].data + 1,
           todo |-> active_connections, sent |-> {}, dropped |-> {}]]
    /\ Silent
    /\ UNCHANGED <<machines, metadata, production_log, erp, erp_asked, clock,
                   alert_history, meter, active_connections, sockets, received>>

\* The send_json task t awaits ends: delivered on an open socket, an
\* exception on a closed one, which drops the subscriber; then the next
\* send_json is awaited or broadcast returns.  An exception that leaves the
\* except block ends the broadcast and goes up into the task.
send_json(t) ==
    LET b == broadcasting[t]
        ws == Head(b.todo)
        ok == sockets[ws] = "open"
        r == IF ok THEN [list |-> active_connections, raised |-> FALSE]
             ELSE SendFailure(active_connections, ws)
    IN /\ b.pc = "send"
       /\ received' = IF ok THEN [received EXCEPT ![ws] = @ \cup {<<t, b.data>>}]
                      ELSE received
       /\ active_connections' = r.list
       /\ broadcasting' = [broadcasting EXCEPT ![t] =
             [pc |-> IF r.raised THEN "raised"
                     ELSE IF Tail(b.todo) = <<>> THEN "idle" ELSE "send",
              data |-> b.data,
              todo |-> Tail(b.todo),
              sent |-> IF ok THEN b.sent \cup {ws} ELSE b.sent,
              dropped |-> IF ok THEN b.dropped ELSE b.dropped \cup {ws}]]
       /\ Silent
       /\ UNCHANGED <<machines, metadata, production_log, erp, erp_asked, clock,
                      alert_history, meter, sockets>>

\* ------------------------------------------------------------ specification
\* The operator's requests and the three background loops.
Program ==
    \/ auto_assign_work_orders
    \/ \E loc \in Locations, id \in DOMAIN machines : start_machine(loc, id)
    \/ \E loc \in Locations, id \in DOMAIN machines : pause_machine(loc, id)
    \/ \E loc \in Locations, id \in DOMAIN machines : stop_machine(loc, id)
    \/ MeterBegin
    \/ MeterResume
    \/ production_alerts

\* Two machines of one location; every order asks for the seeded pipe size.
Next ==
    \/ \E w \in WorkOrders : ErpCreate(w, Locations, {SeedPipeSize}, QtyPairs)
    \/ \E d \in ClockSteps : Tick(d, MaxClock)
    \/ Program

Spec == Init /\ [][Next]_vars

\* One machine, through orders that stand at 75 and 90 percent.
InitOne == Startup({1})

NextOne ==
    \/ \E w \in WorkOrders : ErpCreate(w, {LocationOf(1)}, {SeedPipeSize}, LevelQtyPairs)
    \/ \E d \in ClockSteps : Tick(d, MaxClock)
    \/ Program

SpecOne == InitOne /\ [][NextOne]_vars

\* One machine, followed for longer, the passes up to five meters apart.
NextLong ==
    \/ \E w \in WorkOrders : ErpCreate(w, {LocationOf(1)}, {SeedPipeSize}, LongQtyPairs)
    \/ \E d \in LongClockSteps : Tick(d, LongClock)
    \/ Program

SpecLong == InitOne /\ [][NextLong]_vars

\* One machine at each of two locations.
InitSites == Startup({1, 100})

SpecSites == InitSites /\ [][Next]_vars

\* The program with a store that may raise during an assignment cycle; the
\* orders are fresh ones of the machines' location.
NextFailing ==
    \/ \E w \in WorkOrders : ErpCreate(w, {LocationOf(1)}, {SeedPipeSize}, {<<2, 0>>})
    \/ \E d \in ClockSteps : Tick(d, MaxClock)
    \/ Program
    \/ auto_assign_store_error

SpecFailing == Init /\ [][NextFailing]_vars

\* One machine under the scheduling the loops have: the meter counter sleeps
\* one second between passes and a meter takes twenty, so time does not go a
\* meter further while a pass is under way or a running machine is due; and
\* time goes on, and the pass is made, whenever they can.
TickLive ==
    /\ meter.pc = "sleep"
    /\ \A id \in DOMAIN machines :
         machines[id].status = "running" => ~Due(machines[id], clock)
    /\ \E d \in ClockSteps : Tick(d, LongClock)

NextLive ==
    \/ \E w \in WorkOrders : ErpCreate(w, {LocationOf(1)}, {SeedPipeSize}, QtyPairs)
    \/ TickLive
    \/ Program

SpecLive ==
    /\ InitOne /\ [][NextLive]_vars
    /\ WF_vars(TickLive) /\ WF_vars(MeterBegin) /\ WF_vars(MeterResume)

\* ------------------------------------------------------------ selection alone
\* auto_assign_work_orders on a fleet of three machines of one location, each
\* as the program can leave it: as seeded; paused or stopped by the operator
\* with no order; paused or stopped after it completed an earlier order
\* (unlocked, with that order's pipe size); or holding an order (locked).
OldOrder(id) == IF id = 1 THEN "OLD-1" ELSE IF id = 2 THEN "OLD-2" ELSE "OLD-3"

SelectRows(id) ==
    {SeedMachine(id)}
    \cup {[SeedMachine(id) EXCEPT !.status = st] : st \in {"paused", "stopped"}}
    \cup {[SeedMachine(id) EXCEPT !.status = st, !.pipe_size = ps,
                                  !.is_locked = lk,
                                  !.work_order = OldOrder(id),
                                  !.erpnext_work_order_id = OldOrder(id),
                                  !.target_qty = 2, !.produced_qty = 2,
                                  !.last_tick_time = 0] :
             st \in {"paused", "stopped"}, ps \in PipeSizes, lk \in BOOLEAN}

InitSelect ==
    /\ machines \in [{1, 2, 3} -> UNION {SelectRows(id) : id \in {1, 2, 3}}]
    /\ \A id \in {1, 2, 3} : machines[id] \in SelectRows(id)
    /\ metadata = [w \in WorkOrders |-> NoMeta]
    /\ production_log = <<>>
    /\ erp = [w \in WorkOrders |-> Absent]
    /\ erp_asked = [w \in WorkOrders |-> None]
    /\ clock = 0
    /\ alert_history = [id \in {1, 2, 3} |-> 0]
    /\ meter = MeterIdle
    /\ alerts = {}
    /\ assigned = <<>>
    /\ advanced = <<>>
    /\ observed = <<>>
    /\ failed = None
    /\ NoSubscribers

NextSelect ==
    \/ \E w \in WorkOrders : ErpCreate(w, {LocationOf(1)}, PipeSizes, {<<2, 0>>})
    \/ auto_assign_work_orders

SpecSelect == InitSelect /\ [][NextSelect]_vars

\* ------------------------------------------------------------ alert passes alone
\* production_alerts on one running machine with a target of 100, so that
\* produced_qty is the percent: each step is the row as the pass finds it
\* (any of the percents, whatever the pass before found) and one pass.
Percents == {70, 80, 95, 92, 99, 100}

InitLevels ==
    /\ machines = [id \in {1} |->
          [SeedMachine(id) EXCEPT !.status = "running", !.is_locked = TRUE,
                                  !.work_order = WorkOrderNames[1],
                                  !.erpnext_work_order_id = WorkOrderNames[1],
                                  !.last_tick_time = 0]]
    /\ metadata = [w \in WorkOrders |->
          IF w = WorkOrderNames[1]
          THEN [machine_id |-> 1, erp_status |-> "Assigned"] ELSE NoMeta]
    /\ production_log = <<>>
    /\ erp = [w \in WorkOrders |->
          IF w = WorkOrderNames[1]
          THEN [status |-> "In Process", location |-> LocationOf(1),
                pipe_size |-> SeedPipeSize, qty |-> SeedTargetQty,
                produced_qty |-> 0, custom_machine_id |-> NoMachine]
          ELSE Absent]
    /\ erp_asked = [w \in WorkOrders |->
          IF w = WorkOrderNames[1] THEN "In Process" ELSE None]
    /\ clock = 0
    /\ alert_history = [id \in {1} |-> 0]
    /\ meter = MeterIdle
    /\ alerts = {}
    /\ assigned = <<>>
    /\ advanced = <<>>
    /\ observed = <<>>
    /\ failed = None
    /\ NoSubscribers

AlertPassAt(p) ==
    /\ Len(observed) < MaxPasses
    /\ LET ms == [machines EXCEPT ![1].produced_qty = p]
           r == AlertLoop(SortedSeq({id \in DOMAIN ms : ms[id].target_qty > 0}),
                          ms, [history |-> alert_history, out |-> {}])
       IN /\ machines' = ms
          /\ alert_history' = r.history
          /\ alerts' = r.out
          /\ observed' = Append(observed, <<p, r.out>>)
    /\ assigned' = <<>>
    /\ advanced' = <<>>
    /\ failed' = None
    /\ UNCHANGED <<metadata, production_log, erp, erp_asked, clock, meter>>
    /\ UNCHANGED wsvars

NextLevels == \E p \in Percents : AlertPassAt(p)

SpecLevels == InitLevels /\ [][NextLevels]_vars

\* ------------------------------------------------------------ subscribers alone
\* The WebSocket manager under two broadcasting tasks, the store at rest.
NextSockets ==
    \/ \E ws \in WebSockets : connect(ws)
    \/ \E ws \in WebSockets : Drop(ws)
    \/ \E ws \in WebSockets : ws_dashboard(ws)
    \/ \E t \in Tasks : broadcast(t)
    \/ \E t \in Tasks : send_json(t)

SpecSockets == Init /\ [][NextSockets]_vars

\* ------------------------------------------------------------ properties
\* The machines the step advanced (one ProductionLog row each).
NewRows == {k \in DOMAIN production_log' : k > Len(production_log)}

\* C1: every machine with status running is locked, in every state, and a
\* machine is unlocked in the state its transition to completed leads to.
LockInvariant ==
    [][\A id \in DOMAIN machines :
         /\ machines[id].status = "running" => machines[id].is_locked
         /\ machines'[id].status = "running" => machines'[id].is_locked
         /\ (machines[id].status # "completed" /\ machines'[id].status = "completed")
              => ~machines'[id].is_locked]_vars

\* C1: one machine runs while another has completed.
LockWitness ==
    \E a, b \in DOMAIN machines :
        /\ machines[a].status = "running" /\ machines[a].is_locked
        /\ machines[b].status = "completed" /\ ~machines[b].is_locked

\* C2: produced_qty <= target_qty for every machine, in every state.
ProducedWithinTarget ==
    \A id \in DOMAIN machines : machines[id].produced_qty <= machines[id].target_qty

\* C3: a second call of auto_assign_work_orders right after a first one, the
\* work orders unchanged, changes no machine and no metadata row.
AssignIdempotent ==
    LET first == AssignResult(machines, metadata, erp)
        second == AssignResult(first.machines, first.metadata, erp)
    IN /\ second.machines = first.machines
       /\ second.metadata = first.metadata

\* C4: a work order that was bound to a machine once (it has its metadata
\* row, which is never deleted) is not bound again by a later cycle.
NoRebinding ==
    [][\A i \in DOMAIN assigned' :
         metadata[assigned'[i].work_order] = NoMeta]_vars

\* C5: the machine an assignment chose is the first candidate whose pipe size
\* is the work order's when there is one, and the first candidate otherwise.
SelectionRule ==
    \A i \in DOMAIN assigned :
        LET a == assigned[i]
            c == a.candidates
            match == {k \in DOMAIN c : c[k][2] = a.pipe_size}
        IN /\ c # <<>>
           /\ a.machine_id =
                IF match # {}
                THEN c[CHOOSE k \in match : \A j \in match : k <= j][1]
                ELSE c[1][1]

\* C5: candidates of sizes A, B, B and an order of size B: the second is chosen.
SelectionWitness ==
    \E i \in DOMAIN assigned :
        LET a == assigned[i]
            c == a.candidates
        IN /\ Len(c) = 3
           /\ c[1][2] # a.pipe_size
           /\ c[2][2] = a.pipe_size
           /\ c[3][2] = a.pipe_size
           /\ a.machine_id = c[2][1]
           /\ machines[c[2][1]].work_order = a.work_order
           /\ machines[c[1][1]].work_order # a.work_order

\* C6: a step adds at most one ProductionLog row and one unit per machine,
\* the machine's last_tick_time is then the pass's now, and no machine has
\* two rows of one pass (of one timestamp).
SingleUnitPerTick ==
    [][\A id \in DOMAIN machines :
         LET rows == {k \in NewRows : production_log'[k].machine_id = id}
         IN /\ Cardinality(rows) <= 1
            /\ machines'[id].work_order = machines[id].work_order
                 => machines'[id].produced_qty
                      = machines[id].produced_qty + Cardinality(rows)
            /\ rows # {}
                 => /\ machines'[id].last_tick_time
                        = (IF meter.pc = "sleep" THEN clock ELSE meter.now)
                    /\ \A k \in rows : production_log'[k].timestamp
                                          = machines'[id].last_tick_time
            /\ \A j, k \in DOMAIN production_log' :
                 (j < k /\ production_log'[j].machine_id = id
                        /\ production_log'[k].machine_id = id)
                 => production_log'[j].timestamp # production_log'[k].timestamp]_vars

\* C6: five meters' time had passed, the order had six units to go, and the
\* pass added one.
SingleUnitWitness ==
    \E i \in DOMAIN advanced :
        LET id == advanced[i].machine_id
        IN /\ advanced[i].diff = 5 * machines[id].seconds_per_meter
           /\ machines[id].target_qty = 6
           /\ machines[id].produced_qty = 1
           /\ machines[id].last_tick_time = clock
           /\ Len(production_log) = 1

\* C7: a machine one unit short of its target that the meter counter
\* advances has produced_qty = target_qty and status completed after the
\* step, and when the pass goes on after its broadcast the work order's
\* metadata row is Completed.
ClampAndComplete ==
    [][/\ \A k \in NewRows :
            LET id == production_log'[k].machine_id
            IN machines[id].produced_qty = machines[id].target_qty - 1
               => /\ machines'[id].produced_qty = machines'[id].target_qty
                  /\ machines'[id].target_qty = machines[id].target_qty
                  /\ machines'[id].status = "completed"
                  /\ meter'.pc = "await"
                  /\ meter'.meta = machines[id].work_order
       /\ (meter.pc = "await" /\ meter' # meter /\ meter.meta # None)
            => metadata'[meter.meta].erp_status = "Completed"]_vars

\* C7: two machines completed in one pass, both rows Completed.
ClampWitness ==
    \E a, b \in DOMAIN machines :
        /\ a # b
        /\ meter.pc = "sleep"
        /\ \A id \in {a, b} :
             /\ machines[id].status = "completed"
             /\ machines[id].produced_qty = machines[id].target_qty
             /\ machines[id].work_order \in WorkOrders
             /\ metadata[machines[id].work_order].erp_status = "Completed"
             /\ \E k \in DOMAIN production_log :
                  /\ production_log[k].machine_id = id
                  /\ production_log[k].timestamp = clock
                  /\ production_log[k].work_order = machines[id].work_order

\* C10: a completed machine keeps its status while its work order is the
\* same, and the ERP is not asked for In Process after Completed.
CompletedTerminal ==
    [][/\ \A id \in DOMAIN machines :
            (machines[id].status = "completed"
             /\ machines'[id].work_order = machines[id].work_order)
            => machines'[id].status = "completed"
       /\ \A w \in WorkOrders :
            erp_asked[w] = "Completed" => erp_asked'[w] # "In Process"]_vars

\* C8: an alert is sent for a machine only with a level above the level
\* stored for it.
UpwardOnly ==
    [][\A a \in alerts' : a[2] > alert_history[a[1]]]_vars

\* The level the specification gives a percent.
LevelOf(percent) ==
    IF percent < 75 THEN 0 ELSE IF percent < 90 THEN 1 ELSE IF percent < 100 THEN 2 ELSE 3

\* The highest level sent in the passes before pass i.
LastSent(i) ==
    LET sent == {a[2] : a \in UNION {observed[j][2] : j \in 1..(i - 1)}}
    IN IF sent = {} THEN 0 ELSE CHOOSE l \in sent : \A x \in sent : x <= l

\* C9: while the percent does not go down, a pass sends exactly one alert, of
\* the percent's level, when that level is above the last one sent, and none
\* otherwise; the passes 70, 80, 95, 92, 99, 100 send alerts at 80, 95, 100.
AlertDedup ==
    /\ (\A i \in 2..Len(observed) : observed[i - 1][1] <= observed[i][1])
        => \A i \in DOMAIN observed :
             observed[i][2] = IF LevelOf(observed[i][1]) > LastSent(i)
                              THEN {<<1, LevelOf(observed[i][1])>>} ELSE {}
    /\ [i \in DOMAIN observed |-> observed[i][1]] = <<70, 80, 95, 92, 99, 100>>
        => [i \in DOMAIN observed |-> observed[i][2]]
             = <<{}, {<<1, 1>>}, {<<1, 2>>}, {}, {}, {<<1, 3>>}>>

\* C9: the six passes of the example were made.
AlertDedupWitness ==
    /\ [i \in DOMAIN observed |-> observed[i][1]] = <<70, 80, 95, 92, 99, 100>>
    /\ alert_history[1] = 3

\* C11: every machine whose status is paused, stopped, running or completed
\* has a work order (free is the only status without one).
WorkOrderUnlessFree ==
    \A id \in DOMAIN machines :
        machines[id].status # "free" => machines[id].work_order # None

\* The ProductionLog rows of a machine for a work order.
RowsOf(id, w) ==
    {k \in DOMAIN production_log :
        /\ production_log[k].machine_id = id
        /\ production_log[k].work_order = w}

\* C12: for every machine and the work order it carries, the number of its
\* ProductionLog rows for that order is produced_qty minus the produced_qty
\* the assignment copied from the work order, each row counting one unit.
LogExact ==
    /\ \A id \in DOMAIN machines :
         machines[id].work_order \in WorkOrders
         => Cardinality(RowsOf(id, machines[id].work_order))
              = machines[id].produced_qty - erp[machines[id].work_order].produced_qty
    /\ \A k \in DOMAIN production_log : production_log[k].produced_qty = 1

\* The connected subscribers.
Active == {active_connections[i] : i \in DOMAIN active_connections}

\* The subscribers the broadcast of task t was entered with.
Subscribers(b) == b.sent \cup b.dropped \cup {b.todo[i] : i \in DOMAIN b.todo}

\* The step in which the broadcast of task t returns.
Returns(t) ==
    /\ broadcasting'[t].pc = "idle"
    /\ \/ broadcasting[t].pc = "send"
       \/ broadcasting[t].pc = "idle" /\ broadcasting'[t].data # broadcasting[t].data

\* C13 as stated: when a broadcast returns, every subscriber whose send failed
\* is out of the active set, every subscriber whose send succeeded is in the
\* set and has the message, and no broadcast ends in an exception.
SubscriberDropAsStated ==
    [][\A t \in Tasks :
         /\ broadcasting'[t].pc # "raised"
         /\ Returns(t)
              => LET b == broadcasting'[t]
                 IN /\ \A ws \in b.dropped : ws \notin Active'
                    /\ \A ws \in b.sent : /\ <<t, b.data>> \in received'[ws]
                                          /\ ws \in Active']_vars

\* C13, amended: when a broadcast returns, every subscriber it was entered
\* with was tried; every one whose send failed is out of the active set;
\* every one whose send succeeded has the message, and is in the set unless
\* its socket closed since; and no broadcast ends in an exception.
SubscriberDrop ==
    [][\A t \in Tasks :
         /\ broadcasting'[t].pc # "raised"
         /\ Subscribers(broadcasting'[t]) = Subscribers(broadcasting[t])
              \/ broadcasting[t].pc = "idle"
         /\ Returns(t)
              => LET b == broadcasting'[t]
                 IN /\ b.todo = <<>>
                    /\ \A ws \in b.dropped : ws \notin Active'
                    /\ \A ws \in b.sent : /\ <<t, b.data>> \in received'[ws]
                                          /\ sockets'[ws] = "open" => ws \in Active'
                    /\ \A ws \in WebSockets \ Subscribers(b) :
                         <<t, b.data>> \notin received'[ws]]_vars

\* C13: a broadcast has returned that delivered to one subscriber and
\* dropped a second, and a third that connected after the broadcast was
\* entered is in the set without the message.
SubscriberDropWitness ==
    \E t \in Tasks, a, b, c \in WebSockets :
        /\ broadcasting[t].pc = "idle"
        /\ broadcasting[t].sent = {a}
        /\ broadcasting[t].dropped = {b}
        /\ Active = {a, c}
        /\ received[a] = {<<t, 1>>}
        /\ received[c] = {}

\* C14: the meter counter advances a machine only when the status stored for
\* it at that moment is running (a machine paused or stopped while the pass
\* was suspended is not advanced when the pass goes on).
AdvanceOnlyRunning ==
    [][\A i \in DOMAIN advanced' : advanced'[i].status = "running"]_vars

\* C15: what a pass of the meter counter changes is committed in one commit:
\* a pass that goes on after a commit (it was suspended at the broadcast of a
\* completion, which commits) changes no further machine and adds no further
\* row, so the store never holds one machine's part of a pass without the
\* others'.
TickBatching ==
    [][meter.pc = "await"
         => /\ NewRows = {}
            /\ \A id \in DOMAIN machines :
                 machines'[id].produced_qty # machines[id].produced_qty
                 => machines'[id].work_order # machines[id].work_order]_vars

\* The job fields of a machine row.
JobFields(m) ==
    <<m.work_order, m.pipe_size, m.target_qty, m.produced_qty, m.status, m.is_locked>>

\* C16: whatever state a cycle of auto_assign_work_orders starts from, the
\* machines whose job fields it changes are machines it chose; a chosen
\* machine was at the order's location, unlocked and free, paused or stopped
\* when it was chosen, and ends paused, locked, with the order's id, pipe
\* size, qty and produced_qty; every other machine is left as it was.
CandidateEligibility ==
    LET r == AssignResult(machines, metadata, erp)
        chosen == {r.assigned[i].machine_id : i \in DOMAIN r.assigned}
    IN /\ \A id \in DOMAIN machines \ chosen : r.machines[id] = machines[id]
       /\ \A i \in DOMAIN r.assigned :
            LET a == r.assigned[i]
                id == a.machine_id
                wo == erp[a.work_order]
            IN /\ machines[id].location = wo.location
               /\ machines[id].is_locked = FALSE
               /\ machines[id].status \in {"free", "paused", "stopped"}
               /\ \A j \in DOMAIN r.assigned : j # i => r.assigned[j].machine_id # id
               /\ JobFields(r.machines[id])
                    = <<a.work_order, wo.pipe_size, wo.qty, wo.produced_qty, "paused", TRUE>>

\* C16: a cycle has just given an order to the machine of one location, which
\* had completed an earlier order, while the machine of the other location,
\* stopped and unlocked, was left without an order.
CandidateEligibilityWitness ==
    \E i \in DOMAIN assigned, other \in DOMAIN machines :
        LET id == assigned[i].machine_id
        IN /\ machines[id].work_order = assigned[i].work_order
           /\ machines[id].status = "paused"
           /\ machines[id].is_locked
           /\ \E w \in WorkOrders :
                /\ w # assigned[i].work_order
                /\ metadata[w] = [machine_id |-> id, erp_status |-> "Completed"]
           /\ machines[other].location # machines[id].location
           /\ machines[other].status = "stopped"
           /\ ~machines[other].is_locked
           /\ machines[other].work_order = None

\* The place of a work order in the list get_work_orders returns.
PlaceOf(w) ==
    LET wos == get_work_orders(erp)
    IN CHOOSE j \in DOMAIN wos : wos[j] = w

\* C17: in a cycle in which the store raises at a work order, the
\* assignments made for the orders before it are in the store (machine and
\* record), every other machine and record, those touched for the failing
\* order included, is as it was before the cycle, and a next cycle on that
\* store looks at the failing order again: when the failing cycle was about
\* to assign it, the next one assigns it if a candidate is left at its turn.
FailureScope ==
    [][failed' # None =>
         LET k == PlaceOf(failed')
             full == AssignResult(machines, metadata, erp)
             early == {i \in DOMAIN full.assigned : PlaceOf(full.assigned[i].work_order) < k}
             chosen == {assigned'[i].machine_id : i \in DOMAIN assigned'}
             bound == {assigned'[i].work_order : i \in DOMAIN assigned'}
             again == AssignResult(machines', metadata', erp')
             turn == AssignLoop(SubSeq(get_work_orders(erp'), 1, k - 1), erp',
                                [machines |-> machines', metadata |-> metadata',
                                 assigned |-> <<>>])
         IN /\ assigned' = [i \in 1..Cardinality(early) |-> full.assigned[i]]
            /\ \A i \in DOMAIN assigned' :
                 LET a == assigned'[i]
                 IN /\ machines'[a.machine_id].work_order = a.work_order
                    /\ machines'[a.machine_id].status = "paused"
                    /\ machines'[a.machine_id].is_locked
                    /\ metadata'[a.work_order]
                         = [machine_id |-> a.machine_id, erp_status |-> "Assigned"]
            /\ \A id \in DOMAIN machines \ chosen : machines'[id] = machines[id]
            /\ \A w \in WorkOrders \ bound : metadata'[w] = metadata[w]
            /\ (\E i \in DOMAIN full.assigned : full.assigned[i].work_order = failed')
                 => (FreeMachines(turn.machines, erp'[failed'].location) # <<>>
                       <=> \E i \in DOMAIN again.assigned :
                              again.assigned[i].work_order = failed')
            /\ UNCHANGED <<production_log, erp, erp_asked, meter>>]_vars

\* C17: the store raised at the second order of a cycle: the first order is
\* on its machine; the machine the second order was to get is still free and
\* unlocked, and the second order has no record.
FailureScopeWitness ==
    \E a, b \in DOMAIN machines :
        /\ failed = WorkOrderNames[2]
        /\ Len(assigned) = 1
        /\ assigned[1].work_order = WorkOrderNames[1]
        /\ assigned[1].machine_id = a
        /\ machines[a].work_order = WorkOrderNames[1]
        /\ machines[a].is_locked
        /\ b # a
        /\ machines[b].status = "free"
        /\ machines[b].work_order = None
        /\ ~machines[b].is_locked
        /\ metadata[WorkOrderNames[2]] = NoMeta

\* C18: every running machine has a work order and a last_tick_time, in every
\* state; and no step makes a machine without a work order running, or
\* changes anything of it but its status (a pause or stop request), unless
\* the step assigns it an order.
RunningPrecondition ==
    [][\A id \in DOMAIN machines :
         /\ machines[id].status = "running"
              => machines[id].work_order # None /\ machines[id].last_tick_time # NoTime
         /\ machines'[id].status = "running"
              => machines'[id].work_order # None /\ machines'[id].last_tick_time # NoTime
         /\ (machines[id].work_order = None /\ machines'[id].work_order = None)
              => /\ machines'[id].status # "running"
                 /\ [machines'[id] EXCEPT !.status = machines[id].status] = machines[id]]_vars

\* C18: a machine runs on its order, stamped with a time after startup, next
\* to a machine without an order that a request has stopped.
RunningWitness ==
    \E a, b \in DOMAIN machines :
        /\ machines[a].status = "running"
        /\ machines[a].work_order \in WorkOrders
        /\ machines[a].last_tick_time = clock
        /\ clock > 0
        /\ machines[b].work_order = None
        /\ machines[b].status = "stopped"
        /\ machines[b].last_tick_time = NoTime

\* C19: a machine that carries a work order and is unlocked has
\* produced_qty >= target_qty, in every state, so every machine a cycle of
\* auto_assign_work_orders would choose either carries no order or has
\* finished the one it carries.
NoUnfinishedReplaced ==
    /\ \A id \in DOMAIN machines :
         (machines[id].work_order # None /\ ~machines[id].is_locked)
         => machines[id].produced_qty >= machines[id].target_qty
    /\ LET r == AssignResult(machines, metadata, erp)
       IN \A i \in DOMAIN r.assigned :
            LET m == machines[r.assigned[i].machine_id]
            IN m.work_order # None => m.produced_qty >= m.target_qty

\* C19: a cycle has just put a new order on a machine whose ProductionLog
\* shows it made every unit of the order it carried before.
NoUnfinishedReplacedWitness ==
    \E i \in DOMAIN assigned :
        LET id == assigned[i].machine_id
        IN /\ machines[id].work_order = assigned[i].work_order
           /\ \E w \in WorkOrders :
                /\ w # assigned[i].work_order
                /\ erp[w].qty > 0
                /\ Cardinality(RowsOf(id, w)) = erp[w].qty - erp[w].produced_qty

\* C20: a machine that runs with a work order and a positive
\* seconds_per_meter is one the meter counter advances once a meter's time
\* has passed since its last tick; without that no pass advances it, and so
\* none completes it, however long it runs.
CompletionReachable ==
    \A id \in DOMAIN machines :
        (/\ machines[id].status = "running"
         /\ machines[id].work_order # None
         /\ machines[id].seconds_per_meter > 0)
        => Due(machines[id], machines[id].last_tick_time + machines[id].seconds_per_meter)

\* C21: when a pass of the meter counter brings a machine to its target and
\* completes it, the pass of production_alerts that comes next sends the
\* level 3 alert for that machine.
CompletionAlert ==
    [][\A k \in NewRows :
         LET id == production_log'[k].machine_id
             r == AlertLoop(SortedSeq({i \in DOMAIN machines' :
                                          machines'[i].target_qty > 0}),
                            machines', [history |-> alert_history', out |-> {}])
         IN (/\ machines'[id].status = "completed"
             /\ machines'[id].produced_qty = machines'[id].target_qty)
            => <<id, 3>> \in r.out]_vars

====
